---------------------------- MODULE Spec2Model ----------------------------
(***************************************************************************)
(* Model of the browser chat client in src/public/chat.js: the session     *)
(* registry (chats, currentChatId, currentChatHistory), its persistence in *)
(* localStorage, the send/receive cycle of sendMessage and the two DOM     *)
(* regions the code repaints (the message list and the sidebar list).      *)
(*                                                                         *)
(* Conventions.                                                            *)
(*  - A JavaScript string is a sequence of tokens; a token is one          *)
(*    character, or a whole literal of the source kept verbatim.           *)
(*  - A history array is an address into heap, so that the aliasing of     *)
(*    currentChatHistory with a chat's history is the code's.              *)
(*  - A JavaScript function f(args) is an operator f(s, args) from a       *)
(*    record s of the program's state to the record after the call.  The   *)
(*    field threw is set when an exception leaves the function uncaught;   *)
(*    every function passes a record that already threw through unchanged, *)
(*    which is how the rest of the handler is skipped.                     *)
(*  - An action runs one event handler, or one segment of the async        *)
(*    function sendMessage between two awaits, and copies the record back  *)
(*    into the variables.                                                  *)
(***************************************************************************)
EXTENDS Integers, Sequences, FiniteSets, TLC

VARIABLES
    chats,              \* chat.js:26   the registry, a sequence of chat objects
    chatsIsArray,       \* chat.js:276  FALSE when chats holds parsed JSON that is no array
    currentChatId,      \* chat.js:32
    currentChatHistory, \* chat.js:38   address of the array it references
    heap,               \* the history arrays, by address
    isProcessing,       \* chat.js:50
    storage,            \* localStorage value under 'oss120b_chats'
    dom,                \* children of #chat-messages
    chatList,           \* children of #chat-list
    inputValue,         \* userInput.value
    inputDisabled,      \* userInput.disabled
    sendDisabled,       \* sendButton.disabled
    calls,              \* sendMessage invocations suspended at an await
    nextId,             \* the next id Date.now()/Math.random() yields
    phase,              \* "constructed" (script ran) or "ready" (DOMContentLoaded handled)
    events,             \* chats created, exchanges started and writes rejected so far
    last                \* the handler that ran last and what it did

vars == <<chats, chatsIsArray, currentChatId, currentChatHistory, heap,
          isProcessing, storage, dom, chatList, inputValue, inputDisabled,
          sendDisabled, calls, nextId, phase, events, last>>

---------------------------------------------------------------------------
(* Bounds of the model *)

\* events of one run that make the state grow: chats created, exchanges started
\* from idle and writes the store rejected, taken together
MaxEvents == 1
\* length of a persisted array drawn as the initial store of SpecLoad and SpecRT
MaxStored == 3

---------------------------------------------------------------------------
(* Values *)

\* null / undefined as a chat id and as currentChatId
NoId == 0
\* undefined as a chat id (the key is missing)
Undefined == -1
\* a history that is not an array (the key is missing)
NotArray == 0
\* a missing title (undefined), falsy like the empty string
NoTitle == <<>>

Addrs == 1..(MaxEvents + MaxStored + 2)

\* if (id): neither null nor undefined (an id that is present is a non-empty string)
Truthy(id) == id \notin {NoId, Undefined}

WELCOME_MESSAGE ==
    [role |-> "assistant",
     content |-> <<"Hello! I'm OSS-120b, an AI model from OpenAI (similar to ChatGPT, but smaller, and open-source!) How can I help you today?">>]

FAILURE_TEXT == <<"Sorry, there was an error processing your request.">>
NEW_CHAT_TITLE == <<"New Chat">>
NO_RESPONSE_TEXT == <<"[No response text found]">>
NO_ASSISTANT_TEXT == <<"[No assistant message found]">>
NO_MESSAGES_YET == <<"No messages yet">>
THINKING_HTML == <<"<em>AI is thinking...</em>">>
THINKING_ID == "thinking-indicator"

\* substring(0, 50) of the sidebar preview
PreviewLen == 50

---------------------------------------------------------------------------
(* Strings *)

IsSpace(c) == c \in {" ", "\n"}

RECURSIVE TrimStart(_)
TrimStart(str) ==
    IF str # <<>> /\ IsSpace(Head(str)) THEN TrimStart(Tail(str)) ELSE str

RECURSIVE TrimEnd(_)
TrimEnd(str) ==
    IF str # <<>> /\ IsSpace(str[Len(str)])
    THEN TrimEnd(SubSeq(str, 1, Len(str) - 1))
    ELSE str

\* String.prototype.trim
Trim(str) == TrimEnd(TrimStart(str))

\* str.replace(/\n/g, "<br>")
ReplaceNewlines(str) == [i \in 1..Len(str) |-> IF str[i] = "\n" THEN "<br>" ELSE str[i]]

\* str.substring(0, n)
Substring0(str, n) == SubSeq(str, 1, IF Len(str) < n THEN Len(str) ELSE n)

\* array.map(msg => msg.content).join("\n")
RECURSIVE JoinContents(_)
JoinContents(msgs) ==
    IF msgs = <<>> THEN <<>>
    ELSE IF Len(msgs) = 1 THEN msgs[1].content
    ELSE msgs[1].content \o <<"\n">> \o JoinContents(Tail(msgs))

\* str.split("\n")
RECURSIVE SplitLines(_)
SplitLines(str) ==
    IF \A i \in 1..Len(str) : str[i] # "\n" THEN <<str>>
    ELSE LET k == CHOOSE i \in 1..Len(str) :
                      str[i] = "\n" /\ \A j \in 1..(i - 1) : str[j] # "\n"
         IN <<SubSeq(str, 1, k - 1)>> \o SplitLines(SubSeq(str, k + 1, Len(str)))

---------------------------------------------------------------------------
(* Chat objects and the heap of history arrays *)

Chat(id, title, history) ==
    [isNull |-> FALSE, id |-> id, title |-> title, history |-> history]

\* a null entry of a parsed array
NullEntry == [isNull |-> TRUE, id |-> Undefined, title |-> NoTitle, history |-> NotArray]

\* the arrays some variable of the program references
Live(s) ==
    ({s.chats[i].history : i \in 1..Len(s.chats)} \cup {s.currentChatHistory})
        \ {NotArray}

\* the n-th address, in order, that is not in live: where the n-th new array goes
RECURSIVE NthFree(_, _)
NthFree(live, n) ==
    LET a == CHOOSE x \in Addrs \ live : \A y \in Addrs \ live : x <= y
    IN IF n <= 1 THEN a ELSE NthFree(live \cup {a}, n - 1)

NewAddr(s) == NthFree(Live(s), 1)

\* the heap with every unreferenced array cleared
Collect(s) == [a \in Addrs |-> IF a \in Live(s) THEN s.heap[a] ELSE <<>>]

\* the record of the program's state a handler starts from; oks are the
\* outcomes of the localStorage.setItem calls it is going to make, in order
Cur(oks) ==
    [chats |-> chats, chatsIsArray |-> chatsIsArray, currentChatId |-> currentChatId,
     currentChatHistory |-> currentChatHistory, heap |-> heap,
     isProcessing |-> isProcessing, storage |-> storage, dom |-> dom,
     chatList |-> chatList, inputValue |-> inputValue,
     inputDisabled |-> inputDisabled, sendDisabled |-> sendDisabled,
     calls |-> calls, nextId |-> nextId,
     oks |-> oks, starved |-> FALSE, writes |-> <<>>, threw |-> FALSE,
     caught |-> FALSE,
     retBool |-> FALSE, retId |-> NoId]

\* the outcomes a handler's setItem calls may have: it makes two at most, and
\* an outcome it does not ask for is left TRUE
OkSeqs == {<<a, b>> : a, b \in BOOLEAN}

Rejected(writes) == Cardinality({k \in 1..Len(writes) : ~writes[k]})

\* the records a handler H may end in, one for each way the store may answer
\* the writes it makes
Run(H(_)) ==
    LET s0 == H(Cur(<<TRUE, TRUE>>))
        n == Len(s0.writes)
    IN IF n = 0 THEN {s0}
       ELSE {H(Cur(oks)) : oks \in {o \in OkSeqs : \A k \in (n + 1)..2 : o[k]}}

\* the events of a handler that took the state from Cur to s
Events(s) ==
    (s.nextId - nextId) + Rejected(s.writes)
        + (IF Len(s.calls) > Len(calls) /\ ~isProcessing THEN 1 ELSE 0)

\* the record copied back into the variables at the given cost in events; the run
\* stays within MaxEvents
CommitAt(s, cost) ==
    /\ ~s.starved
    /\ events + cost <= MaxEvents
    /\ events' = events + cost
    /\ chats' = s.chats
    /\ chatsIsArray' = s.chatsIsArray
    /\ currentChatId' = s.currentChatId
    /\ currentChatHistory' = s.currentChatHistory
    /\ heap' = Collect(s)
    /\ isProcessing' = s.isProcessing
    /\ storage' = s.storage
    /\ dom' = s.dom
    /\ chatList' = s.chatList
    /\ inputValue' = s.inputValue
    /\ inputDisabled' = s.inputDisabled
    /\ sendDisabled' = s.sendDisabled
    /\ calls' = s.calls
    /\ nextId' = s.nextId

\* the record copied back into the variables
Commit(s) == CommitAt(s, Events(s))

\* a thrown exception: the rest of the handler does not run
Throw(s) == [s EXCEPT !.threw = TRUE]

---------------------------------------------------------------------------
(* localStorage: JSON.stringify, JSON.parse, saveChats, loadAllChats *)

AbsentStore == [kind |-> "absent", items |-> <<>>]

StoredEntry(s, c) ==
    [isNull |-> c.isNull, id |-> c.id, title |-> c.title,
     histIsArray |-> c.history # NotArray,
     history |-> IF c.history = NotArray THEN <<>> ELSE s.heap[c.history]]

\* JSON.stringify(chats): the arrays are written out by value
Stringify(s) ==
    [kind |-> IF s.chatsIsArray THEN "array" ELSE "json",
     items |-> [i \in 1..Len(s.chats) |-> StoredEntry(s, s.chats[i])]]

\* chats = JSON.parse(stored), for a stored array: every history becomes a new array
ParseInto(s, items) ==
    LET live == {s.currentChatHistory} \ {NotArray}
        addr(i) == IF items[i].histIsArray THEN NthFree(live, i) ELSE NotArray
    IN [s EXCEPT
          !.chats = [i \in 1..Len(items) |->
                        [isNull |-> items[i].isNull, id |-> items[i].id,
                         title |-> items[i].title, history |-> addr(i)]],
          !.chatsIsArray = TRUE,
          !.heap = [a \in Addrs |->
                      IF \E i \in 1..Len(items) : addr(i) = a
                      THEN items[CHOOSE i \in 1..Len(items) : addr(i) = a].history
                      ELSE s.heap[a]]]

\* the filter of line 278 with the test of the history negated
ValidChatInverted(c) == Truthy(c.id) /\ c.title # NoTitle /\ c.history = NotArray

\* chat.id && chat.title && Array.isArray(chat.history)
ValidChat(c) == Truthy(c.id) /\ c.title # NoTitle /\ c.history # NotArray

\* saveChats without the try/catch of lines 261-265: a rejected setItem throws
saveChatsThrowing(s) ==
    IF s.threw THEN s
    ELSE IF s.oks = <<>> THEN [s EXCEPT !.starved = TRUE]
    ELSE LET ok == Head(s.oks)
         IN [s EXCEPT !.storage = IF ok THEN Stringify(s) ELSE @,
                      !.oks = Tail(@),
                      !.writes = Append(@, ok),
                      !.threw = ~ok]

saveChats(s) ==
    IF s.threw THEN s
    ELSE IF s.oks = <<>> THEN [s EXCEPT !.starved = TRUE]
    ELSE LET ok == Head(s.oks)
         IN [s EXCEPT !.storage = IF ok THEN Stringify(s) ELSE @,
                      !.oks = Tail(@),
                      !.writes = Append(@, ok)]

loadAllChats(s) ==
    IF s.threw THEN s
    ELSE CASE s.storage.kind \in {"absent", "empty"} -> s
           [] s.storage.kind = "text" -> s
           [] s.storage.kind = "json" ->
                [s EXCEPT !.chats = <<>>, !.chatsIsArray = FALSE]
           [] OTHER ->
                LET p == ParseInto(s, s.storage.items)
                IN IF \E i \in 1..Len(p.chats) : p.chats[i].isNull
                   THEN p
                   ELSE [p EXCEPT !.chats = SelectSeq(p.chats, ValidChat)]

---------------------------------------------------------------------------
(* Session store: find, setCurrentChat, getCurrentChat, saveChat, deleteChat *)

\* index of the first chat with that id, 0 when there is none
FirstMatch(cs, id) ==
    IF \E i \in 1..Len(cs) : ~cs[i].isNull /\ cs[i].id = id
    THEN CHOOSE i \in 1..Len(cs) :
            /\ ~cs[i].isNull /\ cs[i].id = id
            /\ \A j \in 1..(i - 1) : cs[j].isNull \/ cs[j].id # id
    ELSE 0

\* index of the first null entry, 0 when there is none
FirstNull(cs) ==
    IF \E i \in 1..Len(cs) : cs[i].isNull
    THEN CHOOSE i \in 1..Len(cs) : cs[i].isNull /\ \A j \in 1..(i - 1) : ~cs[j].isNull
    ELSE 0

\* chats.find(c => c.id === id) and chats.findIndex(...) throw a TypeError when chats
\* is no array, or when the scan reads c.id of a null entry before it finds a match
FindThrows(s, id) ==
    \/ ~s.chatsIsArray
    \/ /\ FirstNull(s.chats) # 0
       /\ FirstMatch(s.chats, id) = 0 \/ FirstNull(s.chats) < FirstMatch(s.chats, id)

setCurrentChat(s, chatId) ==
    IF s.threw THEN s
    ELSE IF FindThrows(s, chatId) THEN Throw(s)
    ELSE LET i == FirstMatch(s.chats, chatId)
         IN IF i # 0
            THEN [s EXCEPT !.currentChatId = chatId,
                           !.currentChatHistory = s.chats[i].history,
                           !.retBool = TRUE]
            ELSE [s EXCEPT !.retBool = FALSE]

\* index in chats of the current chat, 0 for null / undefined
getCurrentChat(s) ==
    IF Truthy(s.currentChatId) THEN FirstMatch(s.chats, s.currentChatId) ELSE 0

getCurrentChatThrows(s) == Truthy(s.currentChatId) /\ FindThrows(s, s.currentChatId)

saveChat(s, chat) ==
    IF s.threw THEN s
    ELSE IF FindThrows(s, chat.id) THEN Throw(s)
    ELSE LET index == FirstMatch(s.chats, chat.id)
         IN saveChats([s EXCEPT !.chats = IF index > 0
                                          THEN [@ EXCEPT ![index] = chat]
                                          ELSE Append(@, chat)])

\* chats.splice(index, 1)
Splice(cs, index) == SubSeq(cs, 1, index - 1) \o SubSeq(cs, index + 1, Len(cs))

\* deleteChat without line 310 (saveChats): the splice stays in memory only
deleteChatUnsaved(s, chatId) ==
    IF s.threw THEN s
    ELSE IF FindThrows(s, chatId) THEN Throw(s)
    ELSE LET index == FirstMatch(s.chats, chatId)
         IN IF index > 0
            THEN LET s1 == [s EXCEPT !.chats = Splice(@, index)]
                     a == NewAddr(s1)
                 IN IF s1.currentChatId = chatId
                    THEN [s1 EXCEPT !.currentChatId = NoId,
                                    !.currentChatHistory = a,
                                    !.heap = [@ EXCEPT ![a] = <<>>],
                                    !.retBool = TRUE]
                    ELSE [s1 EXCEPT !.retBool = TRUE]
            ELSE [s EXCEPT !.retBool = FALSE]

deleteChat(s, chatId) ==
    IF s.threw THEN s
    ELSE IF FindThrows(s, chatId) THEN Throw(s)
    ELSE LET index == FirstMatch(s.chats, chatId)
         IN IF index > 0
            THEN LET s1 == saveChats([s EXCEPT !.chats = Splice(@, index)])
                     a == NewAddr(s1)
                 IN IF s1.currentChatId = chatId
                    THEN [s1 EXCEPT !.currentChatId = NoId,
                                    !.currentChatHistory = a,
                                    !.heap = [@ EXCEPT ![a] = <<>>],
                                    !.retBool = TRUE]
                    ELSE [s1 EXCEPT !.retBool = TRUE]
            ELSE [s EXCEPT !.retBool = FALSE]

\* sendMessage without its two auto-save blocks (lines 93-100 and 199-206)
AutoSaveNothing(s) == s

\* the block "Auto-save current chat" of sendMessage
AutoSave(s) ==
    IF s.threw THEN s
    ELSE IF ~Truthy(s.currentChatId) THEN s
    ELSE IF getCurrentChatThrows(s) THEN Throw(s)
    ELSE LET i == getCurrentChat(s)
         IN IF i = 0 THEN s
            ELSE LET s1 == [s EXCEPT !.chats[i].history = s.currentChatHistory]
                 IN saveChat(s1, s1.chats[i])

---------------------------------------------------------------------------
(* Rendering: addMessageToChat, renderChatHistory, updateChatList *)

\* the element addMessageToChat builds: fmt "marked" is <p>marked.parse(text)</p>,
\* fmt "html" is <p>text</p> set as innerHTML, fmt "text" is <p> with textContent text;
\* el is the handle a suspended sendMessage holds on its assistantMessageEl
MessageEl(role, content) ==
    IF role = "assistant"
    THEN [cls |-> role, id |-> "", fmt |-> "marked", text |-> content, el |-> 0]
    ELSE [cls |-> role, id |-> "", fmt |-> "html", text |-> ReplaceNewlines(content),
          el |-> 0]

\* addMessageToChat(role, content), isReRender false
addMessageToChat(s, role, content) ==
    IF s.threw THEN s ELSE [s EXCEPT !.dom = Append(@, MessageEl(role, content))]

\* what renderChatHistory builds for a history
RenderAll(h) == [i \in 1..Len(h) |-> MessageEl(h[i].role, h[i].content)]

renderChatHistory(s) ==
    IF s.threw THEN s
    ELSE IF s.currentChatHistory = NotArray
    THEN Throw([s EXCEPT !.dom = <<>>])
    ELSE [s EXCEPT !.dom = RenderAll(s.heap[s.currentChatHistory])]

\* the <li> updateChatList builds for a chat
ChatItem(s, c) ==
    LET h == s.heap[c.history]
    IN [chatId |-> c.id, active |-> c.id = s.currentChatId, title |-> c.title,
        preview |-> IF Len(h) > 1
                    THEN Substring0(h[2].content, PreviewLen) \o <<"...">>
                    ELSE NO_MESSAGES_YET]

\* index of the first chat whose <li> cannot be built (chat.id of null,
\* chat.history.length of undefined), 0 when there is none
FirstBadItem(cs) ==
    IF \E i \in 1..Len(cs) : cs[i].isNull \/ cs[i].history = NotArray
    THEN CHOOSE i \in 1..Len(cs) :
            /\ cs[i].isNull \/ cs[i].history = NotArray
            /\ \A j \in 1..(i - 1) : ~cs[j].isNull /\ cs[j].history # NotArray
    ELSE 0

updateChatList(s) ==
    IF s.threw THEN s
    ELSE IF ~s.chatsIsArray THEN Throw([s EXCEPT !.chatList = <<>>])
    ELSE LET k == FirstBadItem(s.chats)
             n == IF k = 0 THEN Len(s.chats) ELSE k - 1
             s1 == [s EXCEPT !.chatList = [i \in 1..n |-> ChatItem(s, s.chats[i])]]
         IN IF k = 0 THEN s1 ELSE Throw(s1)

---------------------------------------------------------------------------
(* Chat management handlers *)

\* JSON.parse(JSON.stringify(message))
DeepCopy(m) == [role |-> m.role, content |-> m.content]

\* createNewChat without line 373: the new chat is not made the current one
createNewChatNoSelect(s) ==
    IF s.threw THEN s
    ELSE LET newChatId == s.nextId
             a == NewAddr(s)
             newChat == Chat(newChatId, NEW_CHAT_TITLE, a)
             s0 == [s EXCEPT !.nextId = @ + 1]
         IN IF ~s.chatsIsArray THEN Throw(s0)
            ELSE LET s1 == [s0 EXCEPT !.heap = [@ EXCEPT ![a] = <<DeepCopy(WELCOME_MESSAGE)>>],
                                      !.chats = Append(@, newChat)]
                     s5 == updateChatList(renderChatHistory(saveChats(s1)))
                 IN IF s5.threw THEN s5 ELSE [s5 EXCEPT !.retId = newChatId]

createNewChat(s) ==
    IF s.threw THEN s
    ELSE LET newChatId == s.nextId
             a == NewAddr(s)
             newChat == Chat(newChatId, NEW_CHAT_TITLE, a)
             s0 == [s EXCEPT !.nextId = @ + 1]
         IN IF ~s.chatsIsArray THEN Throw(s0)
            ELSE LET s1 == [s0 EXCEPT !.heap = [@ EXCEPT ![a] = <<DeepCopy(WELCOME_MESSAGE)>>],
                                      !.chats = Append(@, newChat)]
                     s2 == saveChats(s1)
                     s3 == setCurrentChat(s2, newChatId)
                     s4 == renderChatHistory(s3)
                     s5 == updateChatList(s4)
                 IN IF s5.threw THEN s5 ELSE [s5 EXCEPT !.retId = newChatId]

switchChat(s, chatId) ==
    IF s.threw THEN s
    ELSE LET s1 == setCurrentChat(s, chatId)
         IN IF s1.threw \/ ~s1.retBool THEN s1
            ELSE LET s2 == IF Truthy(s1.currentChatId) /\ s1.currentChatId # chatId
                           THEN IF getCurrentChatThrows(s1) THEN Throw(s1)
                                ELSE LET i == getCurrentChat(s1)
                                     IN IF i = 0 THEN s1
                                        ELSE LET s11 == [s1 EXCEPT !.chats[i].history =
                                                                     s1.currentChatHistory]
                                             IN saveChat(s11, s11.chats[i])
                           ELSE s1
                 IN updateChatList(renderChatHistory(s2))

\* deleteChatHandler without lines 458-462: no chat is selected after the
\* current one is deleted
deleteChatHandlerNoFallback(s, chatId, confirmed) ==
    IF s.threw \/ ~confirmed THEN s
    ELSE LET s1 == updateChatList(deleteChat(s, chatId))
         IN IF s1.threw THEN s1
            ELSE IF ~s1.chatsIsArray THEN Throw(s1)
            ELSE IF Len(s1.chats) = 0 THEN createNewChat(s1)
            ELSE s1

\* deleteChatHandler without lines 456-457: the registry may be left empty
deleteChatHandlerNoCreate(s, chatId, confirmed) ==
    IF s.threw \/ ~confirmed THEN s
    ELSE LET s1 == updateChatList(deleteChat(s, chatId))
         IN IF s1.threw THEN s1
            ELSE IF ~s1.chatsIsArray THEN Throw(s1)
            ELSE IF Len(s1.chats) # 0 /\ ~Truthy(s1.currentChatId)
            THEN IF s1.chats[1].isNull THEN Throw(s1)
                 ELSE renderChatHistory(setCurrentChat(s1, s1.chats[1].id))
            ELSE s1

deleteChatHandler(s, chatId, confirmed) ==
    IF s.threw \/ ~confirmed THEN s
    ELSE LET s1 == updateChatList(deleteChat(s, chatId))
         IN IF s1.threw THEN s1
            ELSE IF ~s1.chatsIsArray THEN Throw(s1)
            ELSE IF Len(s1.chats) = 0 THEN createNewChat(s1)
            ELSE IF ~Truthy(s1.currentChatId)
            THEN IF s1.chats[1].isNull THEN Throw(s1)
                 ELSE renderChatHistory(setCurrentChat(s1, s1.chats[1].id))
            ELSE s1

\* initializeChatApp selecting the first chat of the registry instead of the last
initializeChatAppFirst(s) ==
    IF s.threw THEN s
    ELSE LET s1 == loadAllChats(s)
             s2 == IF ~s1.chatsIsArray THEN Throw(s1)
                   ELSE IF Len(s1.chats) = 0 THEN createNewChat(s1)
                   ELSE IF s1.chats[1].isNull THEN Throw(s1)
                   ELSE renderChatHistory(setCurrentChat(s1, s1.chats[1].id))
         IN updateChatList(s2)

initializeChatApp(s) ==
    IF s.threw THEN s
    ELSE LET s1 == loadAllChats(s)
             s2 == IF ~s1.chatsIsArray THEN Throw(s1)
                   ELSE IF Len(s1.chats) = 0 THEN createNewChat(s1)
                   ELSE IF s1.chats[Len(s1.chats)].isNull THEN Throw(s1)
                   ELSE renderChatHistory(
                            setCurrentChat(s1, s1.chats[Len(s1.chats)].id))
         IN updateChatList(s2)

---------------------------------------------------------------------------
(* The response: JSON.parse of a stream line, the text of a JSON body *)

HE_LINE == "{\"response\":\"He\"}"
LLO_LINE == "{\"response\":\"llo\"}"
EMPTY_OBJECT_LINE == "{}"
NULL_LINE == "null"

\* JSON.parse(line) succeeds: the line is one JSON text, blanks around it allowed
LineParses(line) ==
    /\ Len(Trim(line)) = 1
    /\ Trim(line)[1] \in {HE_LINE, LLO_LINE, EMPTY_OBJECT_LINE, NULL_LINE}

\* the line parses to null: jsonData.response throws a TypeError, which the
\* catch of line 164 takes like a line that does not parse
LineIsNull(line) == LineParses(line) /\ Trim(line)[1] = NULL_LINE

\* jsonData.response of a line that parses; <<>> when the field is missing
LineResponse(line) ==
    CASE Trim(line)[1] = HE_LINE -> <<"H", "e">>
      [] Trim(line)[1] = LLO_LINE -> <<"l", "l", "o">>
      [] OTHER -> <<>>

\* lines 160 and 166 with = in place of +=: the text is replaced, not extended
AfterLineOverwrites(text, line) ==
    IF Trim(line) = <<>> THEN text
    ELSE IF LineParses(line) /\ ~LineIsNull(line)
    THEN IF LineResponse(line) # <<>> THEN LineResponse(line) ELSE text
    ELSE line

\* responseText after one line of a chunk
AfterLine(text, line) ==
    IF Trim(line) = <<>> THEN text
    ELSE IF LineParses(line) /\ ~LineIsNull(line)
    THEN IF LineResponse(line) # <<>> THEN text \o LineResponse(line) ELSE text
    ELSE text \o line

\* responseText after the lines of a chunk, in order
RECURSIVE AfterLines(_, _)
AfterLines(text, lines) ==
    IF lines = <<>> THEN text
    ELSE AfterLines(AfterLine(text, Head(lines)), Tail(lines))

\* some line of the chunk repainted assistantMessageEl
Repaints(lines) ==
    \E k \in 1..Len(lines) :
        /\ Trim(lines[k]) # <<>>
        /\ (LineParses(lines[k]) /\ ~LineIsNull(lines[k]))
              => LineResponse(lines[k]) # <<>>

\* an item of data.output, and an item of its content
OutputItem(type, role, contentIsArray, content) ==
    [isNull |-> FALSE, type |-> type, role |-> role,
     contentIsArray |-> contentIsArray, content |-> content]
ContentItem(type, textIsString, text) ==
    [isNull |-> FALSE, type |-> type, textIsString |-> textIsString, text |-> text]
NullItem ==
    [isNull |-> TRUE, type |-> "", role |-> "", contentIsArray |-> FALSE,
     content |-> <<>>, textIsString |-> FALSE, text |-> <<>>]

\* index of the first item the predicate holds of, 0 when none; the scan throws
\* at a null item it reaches first
FirstWhere(items, P(_)) ==
    IF \E i \in 1..Len(items) : ~items[i].isNull /\ P(items[i])
    THEN CHOOSE i \in 1..Len(items) :
            /\ ~items[i].isNull /\ P(items[i])
            /\ \A j \in 1..(i - 1) : items[j].isNull \/ ~P(items[j])
    ELSE 0
ScanThrows(items, P(_)) ==
    \E i \in 1..Len(items) :
        /\ items[i].isNull
        /\ \A j \in 1..(i - 1) : items[j].isNull \/ ~P(items[j])

IsAssistantMessage(item) == item.type = "message" /\ item.role = "assistant"
IsOutputText(c) == c.type = "output_text" /\ c.textIsString

\* lines 175-191: the text taken from the parsed body, threw when a find throws
ExtractText(data) ==
    IF data.isObject /\ data.outputIsArray
    THEN IF ScanThrows(data.output, IsAssistantMessage)
         THEN [threw |-> TRUE, text |-> <<>>]
         ELSE LET m == FirstWhere(data.output, IsAssistantMessage)
              IN IF m # 0 /\ data.output[m].contentIsArray
                 THEN LET content == data.output[m].content
                      IN IF ScanThrows(content, IsOutputText)
                         THEN [threw |-> TRUE, text |-> <<>>]
                         ELSE LET c == FirstWhere(content, IsOutputText)
                              IN [threw |-> FALSE,
                                  text |-> IF c # 0 THEN content[c].text
                                           ELSE NO_RESPONSE_TEXT]
                 ELSE [threw |-> FALSE, text |-> NO_ASSISTANT_TEXT]
    ELSE [threw |-> FALSE, text |-> data.str]

---------------------------------------------------------------------------
(* sendMessage: the segment up to the fetch, and the segments after each await *)

\* line 76 without the test of isProcessing
SendRejectedEmptyOnly(s) == Trim(s.inputValue) = <<>>

\* line 76 without the test of the message
SendRejectedBusyOnly(s) == s.isProcessing

\* line 76: the call returns at once
SendRejected(s) == Trim(s.inputValue) = <<>> \/ s.isProcessing

\* a handle no suspended call holds
NewHandle(s) ==
    CHOOSE h \in 1..(Len(s.calls) + 1) : \A k \in 1..Len(s.calls) : s.calls[k].el # h

ThinkingEl ==
    [cls |-> "assistant", id |-> THINKING_ID, fmt |-> "html", text |-> THINKING_HTML,
     el |-> 0]

\* lines 72-135, to the await of fetch.  The record of the suspended call holds
\* its locals (el for assistantMessageEl, responseText, input for requestBody,
\* body for what the reader has yet to deliver) and, for the properties, the
\* chat that was current when it was issued and the whole body of its stream
sendMessage(s) ==
    IF s.threw \/ SendRejected(s) THEN s
    ELSE LET message == Trim(s.inputValue)
             s1 == [s EXCEPT !.isProcessing = TRUE, !.inputDisabled = TRUE,
                             !.sendDisabled = TRUE]
             s2 == [addMessageToChat(s1, "user", message) EXCEPT !.inputValue = <<>>]
         IN IF s2.currentChatHistory = NotArray THEN Throw(s2)
            ELSE LET s3 == AutoSave([s2 EXCEPT !.heap[s2.currentChatHistory] =
                                Append(@, [role |-> "user", content |-> message])])
                 IN IF s3.threw THEN s3
                    ELSE LET h == NewHandle(s3)
                             \* thinkingEl is appended, and removed first thing in the try
                             withThinking == Append(s3.dom, ThinkingEl)
                             removed == SubSeq(withThinking, 1, Len(withThinking) - 1)
                             assistantMessageEl ==
                                 [cls |-> "assistant", id |-> "", fmt |-> "html",
                                  text |-> <<>>, el |-> h]
                         IN [s3 EXCEPT
                               !.dom = Append(removed, assistantMessageEl),
                               !.calls = Append(@,
                                   [pc |-> "fetch", el |-> h, responseText |-> <<>>,
                                    input |-> JoinContents(s3.heap[s3.currentChatHistory]),
                                    body |-> <<>>, stream |-> <<>>,
                                    issuedFor |-> s3.currentChatId])]

\* assistantMessageEl's <p> is rewritten, whether or not the element is still shown
SetEl(s, h, fmt, text) ==
    [s EXCEPT !.dom = [k \in 1..Len(s.dom) |->
                          IF s.dom[k].el = h
                          THEN [s.dom[k] EXCEPT !.fmt = fmt, !.text = text]
                          ELSE s.dom[k]]]

\* lines 207-212 with the failure text pushed onto currentChatHistory as well
CatchIntoHistory(s) ==
    LET s1 == addMessageToChat([s EXCEPT !.threw = FALSE, !.caught = TRUE],
                               "assistant", FAILURE_TEXT)
    IN IF s1.currentChatHistory = NotArray THEN s1
       ELSE [s1 EXCEPT !.heap[s1.currentChatHistory] =
                          Append(@, [role |-> "assistant", content |-> FAILURE_TEXT])]

\* lines 207-212
Catch(s) ==
    addMessageToChat([s EXCEPT !.threw = FALSE, !.caught = TRUE], "assistant",
                     FAILURE_TEXT)

\* document.getElementById("thinking-indicator")
FirstThinking(d) ==
    IF \E k \in 1..Len(d) : d[k].id = THINKING_ID
    THEN CHOOSE k \in 1..Len(d) :
            d[k].id = THINKING_ID /\ \A j \in 1..(k - 1) : d[j].id # THINKING_ID
    ELSE 0

\* lines 213-225 without line 221: isProcessing is left as it is
FinallyKeepsFlag(s, i) ==
    LET h == s.calls[i].el
        k == FirstThinking(s.dom)
        d == IF k = 0 THEN s.dom ELSE Splice(s.dom, k)
    IN [s EXCEPT !.dom = [j \in 1..Len(d) |->
                             IF d[j].el = h THEN [d[j] EXCEPT !.el = 0] ELSE d[j]],
                 !.inputDisabled = FALSE,
                 !.sendDisabled = FALSE,
                 !.calls = Splice(@, i)]

\* lines 213-225; call i has run to its end and lets go of its element
Finally(s, i) ==
    LET h == s.calls[i].el
        k == FirstThinking(s.dom)
        d == IF k = 0 THEN s.dom ELSE Splice(s.dom, k)
    IN [s EXCEPT !.dom = [j \in 1..Len(d) |->
                             IF d[j].el = h THEN [d[j] EXCEPT !.el = 0] ELSE d[j]],
                 !.isProcessing = FALSE,
                 !.inputDisabled = FALSE,
                 !.sendDisabled = FALSE,
                 !.calls = Splice(@, i)]

\* lines 196-206 with the response written over the last element of the history
PushResponseOverLast(s, responseText) ==
    IF s.threw THEN s
    ELSE IF s.currentChatHistory = NotArray THEN Throw(s)
    ELSE AutoSave([s EXCEPT !.heap[s.currentChatHistory] =
                      IF @ = <<>> THEN <<[role |-> "assistant", content |-> responseText]>>
                      ELSE [@ EXCEPT ![Len(@)] =
                               [role |-> "assistant", content |-> responseText]]])

\* lines 196-206
PushResponse(s, responseText) ==
    IF s.threw THEN s
    ELSE IF s.currentChatHistory = NotArray THEN Throw(s)
    ELSE AutoSave([s EXCEPT !.heap[s.currentChatHistory] =
                      Append(@, [role |-> "assistant", content |-> responseText])])

\* the try block ended: its exception, if any, is caught; then finally
EndTry(s, i) == Finally(IF s.threw THEN Catch(s) ELSE s, i)

\* the fetch of call i settles: r.kind is "reject" (network failure), "notok"
\* (response.ok false), "sse" (content-type includes text/event-stream, r.body
\* the chunks the body is going to deliver) or "other" (any other content-type,
\* or none)
fetchSettles(s, i, r) ==
    CASE r.kind \in {"reject", "notok"} -> EndTry(Throw(s), i)
      [] r.kind = "sse" -> [s EXCEPT !.calls[i].pc = "read", !.calls[i].body = r.body,
                                     !.calls[i].stream = r.body]
      [] OTHER -> [s EXCEPT !.calls[i].pc = "json"]

\* lines 149-171: reader.read() of call i settles: it rejects (ok false), or it
\* resolves with the next chunk of the body, with done when none is left
readSettles(s, i, ok) ==
    IF ~ok THEN EndTry(Throw(s), i)
    ELSE IF s.calls[i].body = <<>>
    THEN EndTry(PushResponse(s, s.calls[i].responseText), i)
    ELSE LET lines == SplitLines(Head(s.calls[i].body))
             text == AfterLines(s.calls[i].responseText, lines)
             s1 == [s EXCEPT !.calls[i].responseText = text,
                             !.calls[i].body = Tail(@)]
         IN IF Repaints(lines) THEN SetEl(s1, s.calls[i].el, "text", text) ELSE s1

\* lines 174-195: response.json() of call i settles with r.kind "reject" (the body
\* is no JSON) or "data" (r.data the parsed body)
jsonSettles(s, i, r) ==
    IF r.kind = "reject" THEN EndTry(Throw(s), i)
    ELSE LET x == ExtractText(r.data)
         IN IF x.threw THEN EndTry(Throw(s), i)
            ELSE EndTry(PushResponse(SetEl(s, s.calls[i].el, "marked", x.text),
                                     x.text), i)

---------------------------------------------------------------------------
(* Inputs *)

\* what userInput.value is set to
InputTexts == {<<" ">>, <<" ", "h", "i", "\n">>}

\* the chunks of a streamed body
StreamBodies == {<< <<HE_LINE, "\n">>, <<LLO_LINE, "\n">> >>}

FetchOutcomes ==
    {[kind |-> k, body |-> <<>>] : k \in {"reject", "notok", "other"}}
    \cup {[kind |-> "sse", body |-> b] : b \in StreamBodies}

HiThereBody ==
    [isObject |-> TRUE, outputIsArray |-> TRUE, str |-> <<"[object Object]">>,
     output |-> <<OutputItem("message", "assistant", TRUE,
                             <<ContentItem("output_text", TRUE, <<"Hi there">>)>>)>>]
NoTextBody ==
    [isObject |-> TRUE, outputIsArray |-> TRUE, str |-> <<"[object Object]">>,
     output |-> <<OutputItem("reasoning", "assistant", TRUE, <<>>),
                  OutputItem("message", "assistant", TRUE,
                             <<ContentItem("refusal", TRUE, <<"no">>)>>)>>]
NoAssistantBody ==
    [isObject |-> TRUE, outputIsArray |-> TRUE, str |-> <<"[object Object]">>,
     output |-> <<OutputItem("message", "user", TRUE, <<>>)>>]
NullItemBody ==
    [isObject |-> TRUE, outputIsArray |-> TRUE, str |-> <<"[object Object]">>,
     output |-> <<NullItem>>]
ErrorBody ==
    [isObject |-> TRUE, outputIsArray |-> FALSE, str |-> <<"[object Object]">>,
     output |-> <<>>]

JsonOutcomes ==
    {[kind |-> "reject", data |-> ErrorBody]}
    \cup {[kind |-> "data", data |-> d] : d \in {HiThereBody, NullItemBody}}

---------------------------------------------------------------------------
(* The state machine *)

\* what the last step ran: flag is the handler's own outcome (sendMessage: the
\* call was rejected; deleteChatHandler: the user confirmed), writes the outcomes
\* of its setItem calls, retId the id createNewChat returned in it
Last(op, arg, flag, s) ==
    [op |-> op, arg |-> arg, flag |-> flag, threw |-> s.threw, caught |-> s.caught,
     writes |-> s.writes, retId |-> s.retId]

\* a chat as createNewChat and saveChats left it in the store
StoredNewChat(id) ==
    [isNull |-> FALSE, id |-> id, title |-> NEW_CHAT_TITLE, histIsArray |-> TRUE,
     history |-> <<WELCOME_MESSAGE>>]

\* the store the page is first loaded with: nothing, or what an earlier run wrote
InitialStores ==
    {AbsentStore,
     [kind |-> "array", items |-> <<StoredNewChat(1)>>],
     [kind |-> "array", items |-> <<StoredNewChat(1), StoredNewChat(2)>>]}

\* the state the script's top level leaves (lines 26-50) over an empty store
Blank ==
    [chats |-> <<>>, chatsIsArray |-> TRUE, currentChatId |-> NoId,
     currentChatHistory |-> 1, heap |-> [a \in Addrs |-> <<>>],
     isProcessing |-> FALSE, storage |-> AbsentStore, dom |-> <<>>,
     chatList |-> <<>>, inputValue |-> <<>>, inputDisabled |-> FALSE,
     sendDisabled |-> FALSE, calls |-> <<>>, nextId |-> 1,
     oks |-> <<>>, starved |-> FALSE, writes |-> <<>>, threw |-> FALSE,
     caught |-> FALSE, retBool |-> FALSE, retId |-> NoId]

\* the same over the store as it is
Constructed == [Blank EXCEPT !.storage = storage, !.nextId = nextId]

ScriptRan ==
    [op |-> "script", arg |-> NoId, flag |-> FALSE, threw |-> FALSE,
     caught |-> FALSE, writes |-> <<>>, retId |-> NoId]

\* the variables of the script as its top level leaves them
TopLevel ==
    /\ chats = Blank.chats
    /\ chatsIsArray = Blank.chatsIsArray
    /\ currentChatId = Blank.currentChatId
    /\ currentChatHistory = Blank.currentChatHistory
    /\ heap = Blank.heap
    /\ isProcessing = Blank.isProcessing
    /\ dom = Blank.dom
    /\ chatList = Blank.chatList
    /\ inputValue = Blank.inputValue
    /\ inputDisabled = Blank.inputDisabled
    /\ sendDisabled = Blank.sendDisabled
    /\ calls = Blank.calls
    /\ phase = "constructed"
    /\ events = 0
    /\ last = ScriptRan

Init ==
    /\ TopLevel
    /\ storage \in InitialStores
    /\ nextId = Len(storage.items) + 1

\* DOMContentLoaded: initializeChatApp(); last.arg is the chat that was current
\* when the page was left, if it was loaded before
InitializeChatApp ==
    /\ phase = "constructed"
    /\ \E s \in Run(LAMBDA c : initializeChatApp(c)) :
         /\ Commit(s)
         /\ last' = Last("initializeChatApp", last.arg, FALSE, s)
    /\ phase' = "ready"

\* the page is loaded again: the script's variables start over, the store stays;
\* last.arg keeps the chat that was current when the page was left
Reload ==
    /\ phase = "ready"
    /\ Commit(Constructed)
    /\ phase' = "constructed"
    /\ last' = [ScriptRan EXCEPT !.arg = currentChatId]

\* click on #new-chat-button
CreateNewChat ==
    /\ phase = "ready"
    /\ \E s \in Run(LAMBDA c : createNewChat(c)) :
         Commit(s) /\ last' = Last("createNewChat", NoId, FALSE, s)
    /\ UNCHANGED phase

\* click on a chat item of the sidebar
SwitchChat ==
    /\ phase = "ready"
    /\ \E k \in 1..Len(chatList) :
         \E s \in Run(LAMBDA c : switchChat(c, chatList[k].chatId)) :
            Commit(s) /\ last' = Last("switchChat", chatList[k].chatId, FALSE, s)
    /\ UNCHANGED phase

\* click on a chat's delete button; both click listeners of #chat-list call the
\* handler, the second one with an id that is gone by then
DeleteChatHandler ==
    /\ phase = "ready"
    /\ \E chatId \in 1..(nextId - 1), confirmed \in BOOLEAN :
         \E s \in Run(LAMBDA c : deleteChatHandler(c, chatId, confirmed)) :
            /\ Commit(s)
            /\ last' = Last("deleteChatHandler", chatId, confirmed, s)
    /\ UNCHANGED phase

\* userInput.value is set
SetInput ==
    /\ phase = "ready"
    /\ \E v \in InputTexts :
         /\ inputValue' = v
         /\ last' = Last("input", NoId, FALSE, Cur(<<>>))
    /\ UNCHANGED <<chats, chatsIsArray, currentChatId, currentChatHistory, heap,
                   isProcessing, storage, dom, chatList, inputDisabled,
                   sendDisabled, calls, nextId, phase, events>>

\* Enter in the input, click on the send button, or a direct call
SendMessage ==
    /\ phase = "ready"
    /\ \E s \in Run(LAMBDA c : sendMessage(c)) :
         /\ Commit(s)
         /\ last' = Last("sendMessage", NoId, SendRejected(Cur(<<>>)), s)
    /\ UNCHANGED phase

FetchSettles ==
    /\ \E i \in 1..Len(calls), r \in FetchOutcomes :
         /\ calls[i].pc = "fetch"
         /\ \E s \in Run(LAMBDA c : fetchSettles(c, i, r)) :
              Commit(s) /\ last' = Last("fetchSettles", NoId, FALSE, s)
    /\ UNCHANGED phase

ReadSettles ==
    /\ \E i \in 1..Len(calls), ok \in BOOLEAN :
         /\ calls[i].pc = "read"
         /\ \E s \in Run(LAMBDA c : readSettles(c, i, ok)) :
              Commit(s) /\ last' = Last("readSettles", NoId, ok, s)
    /\ UNCHANGED phase

JsonSettles ==
    /\ \E i \in 1..Len(calls), r \in JsonOutcomes :
         /\ calls[i].pc = "json"
         /\ \E s \in Run(LAMBDA c : jsonSettles(c, i, r)) :
              Commit(s) /\ last' = Last("jsonSettles", NoId, TRUE, s)
    /\ UNCHANGED phase

Next ==
    \/ InitializeChatApp
    \/ Reload
    \/ CreateNewChat
    \/ SwitchChat
    \/ DeleteChatHandler
    \/ SetInput
    \/ SendMessage
    \/ FetchSettles
    \/ ReadSettles
    \/ JsonSettles

Spec == Init /\ [][Next]_vars

---------------------------------------------------------------------------
(* Properties of Spec *)

\* what JSON.stringify would write of a registry cs whose arrays are in hp
View(cs, isArray, hp) == Stringify([chats |-> cs, chatsIsArray |-> isArray, heap |-> hp])

\* the step is a call of sendMessage
SendStep == last'.op = "sendMessage"

\* the step ends an exchange: its call ran to the end of sendMessage
ExchangeEnds ==
    /\ last'.op \in {"fetchSettles", "readSettles", "jsonSettles"}
    /\ Len(calls') < Len(calls)

\* C1: in every reachable state at most one network call is issued and not yet
\* resolved, and one is only while isProcessing is true
C1_AtMostOneInFlight == Len(calls) <= 1 /\ (Len(calls) = 1 => isProcessing)

\* a second sendMessage was attempted while the first call was in flight, on a
\* message that is not empty
C1_SendWhileInFlight ==
    /\ last.op = "sendMessage"
    /\ Len(calls) = 1
    /\ isProcessing
    /\ Trim(inputValue) # <<>>

\* C2: a call of sendMessage whose trimmed input is empty, or made while
\* isProcessing is true, changes nothing: not the registry, no history, not the
\* current chat, not the store, not isProcessing, not the input controls, not
\* the two lists shown; it issues no network call and writes nothing
C2_RejectedSendIsNoOp ==
    [][(SendStep /\ (Trim(inputValue) = <<>> \/ isProcessing))
        => /\ UNCHANGED <<chats, chatsIsArray, currentChatId, currentChatHistory,
                          heap, storage, isProcessing, inputValue, inputDisabled,
                          sendDisabled, dom, chatList, calls, nextId>>
           /\ last'.writes = <<>>]_vars

\* sendMessage returned at line 76 with only blanks in the input, nothing in flight
C2_BlankSendRejected ==
    /\ last.op = "sendMessage"
    /\ last.flag
    /\ ~isProcessing
    /\ inputValue # <<>>
    /\ Trim(inputValue) = <<>>

\* C3: when an exchange ends without an error, the assistant message is appended
\* to the history of the chat that was current when the request was issued,
\* whatever chat is current by then, and no other chat's history changes
C3_ResponseLandsInIssuingChat ==
    [][(ExchangeEnds /\ ~last'.caught /\ Len(calls) = 1)
        => \A k \in 1..Len(chats) :
              LET before == heap[chats[k].history]
                  after == heap'[chats[k].history]
              IN IF chats[k].id = calls[1].issuedFor
                 THEN /\ Len(after) = Len(before) + 1
                      /\ SubSeq(after, 1, Len(before)) = before
                      /\ after[Len(after)].role = "assistant"
                 ELSE after = before]_vars

\* C4: whenever the registry is not empty, currentChatId is not null and is the
\* id of exactly one chat of the registry
C4_ExactlyOneCurrent ==
    chats # <<>>
        => /\ Truthy(currentChatId)
           /\ Cardinality({k \in 1..Len(chats) : chats[k].id = currentChatId}) = 1

\* the current chat was deleted while another one was left, which deleteChatHandler
\* selected after it repainted the sidebar
C4_DeletedCurrentOthersLeft ==
    /\ last.op = "deleteChatHandler"
    /\ last.flag
    /\ last.writes # <<>>
    /\ last.retId = NoId
    /\ chats # <<>>
    /\ \A k \in 1..Len(chatList) : ~chatList[k].active

\* the step ran createNewChat on the registry it started from: the click on
\* #new-chat-button, or initializeChatApp with nothing to load
CreateStep ==
    \/ last'.op = "createNewChat"
    \/ last'.op = "initializeChatApp" /\ last'.retId # NoId

\* C5: createNewChat appends exactly one chat at the end of the registry, with a
\* fresh id and a history that is exactly [WELCOME_MESSAGE] in an array no other
\* chat and no earlier currentChatHistory shares; it writes the registry once
\* (the store then holds it, unless the store rejected the write), makes the new
\* chat the current one and returns its id; from the empty registry the result
\* has length 1
C5_CreateNewChat ==
    [][CreateStep
        => /\ ~last'.threw
           /\ Len(chats') = Len(chats) + 1
           /\ SubSeq(chats', 1, Len(chats)) = chats
           /\ LET newChat == chats'[Len(chats')]
              IN /\ Truthy(newChat.id)
                 /\ newChat.id = last'.retId
                 /\ \A k \in 1..Len(chats) : chats[k].id # newChat.id
                 /\ newChat.title = NEW_CHAT_TITLE
                 /\ heap'[newChat.history] = <<WELCOME_MESSAGE>>
                 /\ \A k \in 1..Len(chats) : chats[k].history # newChat.history
                 /\ newChat.history # currentChatHistory
                 /\ \A k \in 1..Len(chats) :
                        heap'[chats[k].history] = heap[chats[k].history]
                 /\ currentChatId' = newChat.id
                 /\ currentChatHistory' = newChat.history
           /\ Len(last'.writes) = 1
           /\ last'.writes[1] => storage' = View(chats', chatsIsArray', heap')
           /\ ~last'.writes[1] => storage' = storage
           /\ dom' = RenderAll(<<WELCOME_MESSAGE>>)]_vars

\* createNewChat ran on a registry that held a chat already
C5_CreatedSecondChat ==
    /\ last.op = "createNewChat"
    /\ Len(chats) >= 2
    /\ last.retId = chats[Len(chats)].id
    /\ currentChatId = last.retId

\* C6: when deleteChatHandler deletes the only chat of the registry, the registry
\* it leaves holds exactly one chat, a new one with history [WELCOME_MESSAGE],
\* which is the current chat and was written to the store (unless the store
\* rejected the write)
C6_DeleteOnlyChat ==
    [][(/\ last'.op = "deleteChatHandler"
        /\ last'.flag
        /\ Len(chats) = 1
        /\ chats[1].id = last'.arg)
        => /\ ~last'.threw
           /\ Len(chats') = 1
           /\ Truthy(chats'[1].id)
           /\ chats'[1].id # last'.arg
           /\ chats'[1].id = last'.retId
           /\ heap'[chats'[1].history] = <<WELCOME_MESSAGE>>
           /\ currentChatId' = chats'[1].id
           /\ currentChatHistory' = chats'[1].history
           /\ Len(last'.writes) = 2
           /\ last'.writes[2] => storage' = View(chats', chatsIsArray', heap')
           /\ dom' = RenderAll(<<WELCOME_MESSAGE>>)
           /\ Len(chatList') = 1
           /\ chatList'[1].active]_vars

\* the only chat was deleted and a new one took its place
C6_OnlyChatReplaced ==
    /\ last.op = "deleteChatHandler"
    /\ last.flag
    /\ last.retId # NoId
    /\ Len(chats) = 1
    /\ last.arg # chats[1].id

\* C7: switchChat(id), id a chat of the registry other than the current one,
\* writes the registry with the current chat's history to the store in that
\* call; afterwards id is current and the message list is that chat's history
C7_SwitchPersistsPrevious ==
    [][(/\ last'.op = "switchChat"
        /\ Truthy(currentChatId)
        /\ last'.arg # currentChatId
        /\ FirstMatch(chats, last'.arg) # 0)
        => /\ last'.writes # <<>>
           /\ currentChatId' = last'.arg
           /\ dom' = RenderAll(heap'[currentChatHistory'])]_vars

---------------------------------------------------------------------------
(* SpecLoad: the page is loaded over any value of the storage key *)

UserMessage == [role |-> "user", content |-> <<"h", "i">>]

\* histories a persisted chat may hold
StoredHistories == {<<>>, <<WELCOME_MESSAGE>>, <<WELCOME_MESSAGE, UserMessage>>}

WellFormedEntry(id, h) ==
    [isNull |-> FALSE, id |-> id, title |-> NEW_CHAT_TITLE, histIsArray |-> TRUE,
     history |-> h]

StoredNull ==
    [isNull |-> TRUE, id |-> Undefined, title |-> NoTitle, histIsArray |-> FALSE,
     history |-> <<>>]

\* the well-formed entries the i-th place of a persisted array may hold
WellFormedAt(i) == {WellFormedEntry(i, h) : h \in StoredHistories}

\* entries that are null, or lack id, title or an array as history
MalformedAt(i) ==
    {StoredNull,
     [WellFormedEntry(i, <<WELCOME_MESSAGE>>) EXCEPT !.id = Undefined],
     [WellFormedEntry(i, <<WELCOME_MESSAGE>>) EXCEPT !.title = NoTitle],
     [WellFormedEntry(i, <<>>) EXCEPT !.histIsArray = FALSE]}

\* the arrays of at most MaxStored entries, the i-th one drawn from E(i)
ArraysOf(E(_)) ==
    UNION {{[kind |-> "array", items |-> f] :
               f \in {g \in [1..n -> UNION {E(i) : i \in 1..n}] :
                         \A i \in 1..n : g[i] \in E(i)}} : n \in 0..MaxStored}

AnyAt(i) == WellFormedAt(i) \cup MalformedAt(i)

\* localStorage.getItem('oss120b_chats'): null, "", text that is no JSON, JSON
\* that is no array, or an array
StoredValues ==
    {[kind |-> k, items |-> <<>>] : k \in {"absent", "empty", "text", "json"}}
    \cup ArraysOf(AnyAt)

InitLoad ==
    /\ TopLevel
    /\ storage \in StoredValues
    /\ nextId = MaxStored + 1

NextLoad == InitializeChatApp

SpecLoad == InitLoad /\ [][NextLoad]_vars

\* the well-formed entries of a stored value, in their stored order
WellFormedItems(st) ==
    IF st.kind = "array"
    THEN SelectSeq(st.items,
                   LAMBDA e : ~e.isNull /\ Truthy(e.id) /\ e.title # NoTitle
                                /\ e.histIsArray)
    ELSE <<>>

\* C9: whatever the storage key holds, initializeChatApp ends without an uncaught
\* error and leaves as registry an array of exactly the well-formed entries of
\* the stored value, in their order (and the one new chat when there is none)
C9_LoadNeverCrashes ==
    [][(phase = "constructed" /\ phase' = "ready")
        => /\ ~last'.threw
           /\ chatsIsArray'
           /\ IF WellFormedItems(storage) = <<>>
              THEN Len(chats') = 1 /\ chats'[1].id = last'.retId
              ELSE View(chats', chatsIsArray', heap').items = WellFormedItems(storage)]_vars

---------------------------------------------------------------------------
(* SpecRT: saveChats and loadAllChats over a registry of well-formed chats *)

\* the registry JSON.parse builds from a well-formed array, nothing stored
InitRT ==
    \E st \in ArraysOf(WellFormedAt) :
        LET s == ParseInto(Blank, st.items)
        IN /\ chats = s.chats
           /\ chatsIsArray = s.chatsIsArray
           /\ currentChatId = s.currentChatId
           /\ currentChatHistory = s.currentChatHistory
           /\ heap = s.heap
           /\ isProcessing = s.isProcessing
           /\ storage = AbsentStore
           /\ dom = s.dom
           /\ chatList = s.chatList
           /\ inputValue = s.inputValue
           /\ inputDisabled = s.inputDisabled
           /\ sendDisabled = s.sendDisabled
           /\ calls = s.calls
           /\ nextId = MaxStored + 1
           /\ phase = "constructed"
           /\ events = 0
           /\ last = ScriptRan

SaveChats ==
    /\ \E s \in Run(LAMBDA c : saveChats(c)) :
         Commit(s) /\ last' = Last("saveChats", NoId, FALSE, s)
    /\ UNCHANGED phase

LoadAllChats ==
    /\ \E s \in Run(LAMBDA c : loadAllChats(c)) :
         Commit(s) /\ last' = Last("loadAllChats", NoId, FALSE, s)
    /\ UNCHANGED phase

NextRT == SaveChats \/ LoadAllChats

SpecRT == InitRT /\ [][NextRT]_vars

\* the store holds the registry as it is
Persisted == storage = View(chats, chatsIsArray, heap)

\* C10: a saveChats the store accepts leaves the registry as it was and the
\* store holding it; a loadAllChats over a store that holds the registry leaves
\* a registry with the same chats, in the same order, with the same histories,
\* and the store as it was; and a further saveChats leaves the stored value
\* as it was
C10_SaveThenLoad ==
    [][/\ (last'.op = "saveChats" /\ last'.writes = <<TRUE>>)
            => /\ View(chats', chatsIsArray', heap') = View(chats, chatsIsArray, heap)
               /\ storage' = View(chats, chatsIsArray, heap)
       /\ (last'.op = "loadAllChats" /\ Persisted)
            => /\ View(chats', chatsIsArray', heap') = View(chats, chatsIsArray, heap)
               /\ chatsIsArray'
               /\ storage' = storage
       /\ (last'.op = "saveChats" /\ Persisted) => storage' = storage]_vars

\* a registry of chats with different histories was saved and loaded again
C10_SavedAndLoaded ==
    /\ last.op = "loadAllChats"
    /\ Persisted
    /\ Len(chats) >= 2
    /\ heap[chats[1].history] # heap[chats[2].history]

---------------------------------------------------------------------------
(* SpecLive: every await of a suspended sendMessage settles in the end *)

\* some suspended call waits at that await; this is when the action that
\* settles it is enabled, since the store may accept every write of the step
Pending(pc) == \E i \in 1..Len(calls) : calls[i].pc = pc

\* the promise of fetch, of reader.read() and of response.json() resolves or
\* rejects in the end: weak fairness of the three actions, WF_vars(A) written
\* as []<>~ENABLED <<A>>_vars \/ []<><<A>>_vars with Pending for ENABLED
SpecLive ==
    /\ Init
    /\ [][Next]_vars
    /\ ([]<>(~Pending("fetch")) \/ []<><<FetchSettles>>_vars)
    /\ ([]<>(~Pending("read")) \/ []<><<ReadSettles>>_vars)
    /\ ([]<>(~Pending("json")) \/ []<><<JsonSettles>>_vars)

\* C11: when every await settles in the end, isProcessing true leads to
\* isProcessing false; the step that ends an exchange, whichever way it ends,
\* leaves isProcessing false, the input and the send button enabled and no
\* thinking indicator in the message list; and short of loading the page again
\* nothing but that step makes isProcessing false
C11_ReturnsToIdle ==
    /\ isProcessing ~> ~isProcessing
    /\ [][ExchangeEnds
            => /\ ~isProcessing'
               /\ ~inputDisabled'
               /\ ~sendDisabled'
               /\ FirstThinking(dom') = 0]_vars
    /\ [][(isProcessing /\ ~isProcessing')
            => (ExchangeEnds \/ last'.op = "script")]_vars

\* an exchange ran through the reads of a streamed body and ended, with the
\* controls enabled again
C11_StreamedExchangeEnded ==
    /\ last.op = "readSettles"
    /\ calls = <<>>
    /\ ~isProcessing
    /\ ~inputDisabled
    /\ ~sendDisabled

---------------------------------------------------------------------------
(* SpecJson: one chat, and any body for response.json() to resolve with *)

AssistantItem(content) == OutputItem("message", "assistant", TRUE, content)

\* two assistant messages, the first with two output_text items after a refusal
TwoAnswersBody ==
    [isObject |-> TRUE, outputIsArray |-> TRUE, str |-> <<"[object Object]">>,
     output |-> <<OutputItem("reasoning", "assistant", TRUE, <<>>),
                  AssistantItem(<<ContentItem("refusal", TRUE, <<"no">>),
                                  ContentItem("output_text", TRUE, <<"first">>),
                                  ContentItem("output_text", TRUE, <<"second">>)>>),
                  AssistantItem(<<ContentItem("output_text", TRUE, <<"third">>)>>)>>]

\* an assistant message whose content is no array
ContentNotArrayBody ==
    [isObject |-> TRUE, outputIsArray |-> TRUE, str |-> <<"[object Object]">>,
     output |-> <<OutputItem("message", "assistant", FALSE, <<>>)>>]

\* an output_text item whose text is no string, before one whose text is
NonStringTextBody ==
    [isObject |-> TRUE, outputIsArray |-> TRUE, str |-> <<"[object Object]">>,
     output |-> <<AssistantItem(<<ContentItem("output_text", FALSE, <<>>),
                                  ContentItem("output_text", TRUE, <<"Hi there">>)>>)>>]

\* a null item after the assistant message: find stops before it
NullAfterAnswerBody ==
    [isObject |-> TRUE, outputIsArray |-> TRUE, str |-> <<"[object Object]">>,
     output |-> <<AssistantItem(<<ContentItem("output_text", TRUE, <<"Hi there">>)>>),
                  NullItem>>]

\* the JSON text null
NullBody ==
    [isObject |-> FALSE, outputIsArray |-> FALSE, str |-> <<"null">>, output |-> <<>>]

\* an empty output array
EmptyOutputBody ==
    [isObject |-> TRUE, outputIsArray |-> TRUE, str |-> <<"[object Object]">>,
     output |-> <<>>]

JsonBodies ==
    {HiThereBody, TwoAnswersBody, NoTextBody, NoAssistantBody, ContentNotArrayBody,
     NonStringTextBody, NullAfterAnswerBody, NullItemBody, EmptyOutputBody,
     ErrorBody, NullBody}

\* response.json() settles: it rejects, or resolves with any of the bodies
JsonSettlesAny ==
    /\ \E i \in 1..Len(calls), parsed \in BOOLEAN, data \in JsonBodies :
         /\ calls[i].pc = "json"
         /\ \E s \in Run(LAMBDA c : jsonSettles(c, i,
                            [kind |-> IF parsed THEN "data" ELSE "reject",
                             data |-> data])) :
              Commit(s) /\ last' = Last("jsonSettles", data, parsed, s)
    /\ UNCHANGED phase

NextJson ==
    \/ InitializeChatApp
    \/ SetInput
    \/ SendMessage
    \/ FetchSettles
    \/ ReadSettles
    \/ JsonSettlesAny

SpecJson == Init /\ [][NextJson]_vars

\* the items of a sequence that are not null and satisfy P
Matching(items, P(_)) == SelectSeq(items, LAMBDA x : ~x.isNull /\ P(x))

\* the text the specification determines for a parsed body
ClaimedText(data) ==
    LET msgs == IF data.isObject /\ data.outputIsArray
                THEN Matching(data.output, IsAssistantMessage)
                ELSE <<>>
    IN IF msgs = <<>> THEN NO_ASSISTANT_TEXT
       ELSE LET texts == IF msgs[1].contentIsArray
                         THEN Matching(msgs[1].content, IsOutputText)
                         ELSE <<>>
            IN IF texts = <<>> THEN NO_RESPONSE_TEXT ELSE texts[1].text

\* the step is response.json() resolving with a parsed body
BodyParsed == last'.op = "jsonSettles" /\ last'.flag

\* C12: when response.json() resolves with a parsed body, the exchange does not
\* take the failure path and the assistant message appended has as content the
\* text of the first output_text item of the first assistant message item, else
\* "[No response text found]" when there is such an assistant item, else
\* "[No assistant message found]", whatever the shape of the body
C12_TextFromBody ==
    [][BodyParsed
        => /\ ~last'.caught
           /\ heap'[currentChatHistory'] =
                 Append(heap[currentChatHistory],
                        [role |-> "assistant", content |-> ClaimedText(last'.arg)])]_vars

---------------------------------------------------------------------------
(* SpecStream: one chat, and any streamed body for the reader to deliver *)

\* the chunks reader.read() may resolve with
StreamChunks ==
    {<<HE_LINE, "\n">>,
     <<LLO_LINE, "\n">>,
     <<HE_LINE, "\n", LLO_LINE>>,
     <<" ", LLO_LINE, " ", "\n", EMPTY_OBJECT_LINE>>,
     <<"x", "y">>,
     <<" ", "\n", "z">>,
     <<NULL_LINE, "\n">>,
     <<HE_LINE, "x", "\n", "\n">>}

\* a body of one or two chunks, or of none
AnyStreamBodies ==
    {<<>>} \cup {<<c>> : c \in StreamChunks}
           \cup {<<c, d>> : c, d \in StreamChunks}

\* the fetch resolves with a streamed response
FetchSettlesStream ==
    /\ \E i \in 1..Len(calls), b \in AnyStreamBodies :
         /\ calls[i].pc = "fetch"
         /\ \E s \in Run(LAMBDA c : fetchSettles(c, i, [kind |-> "sse", body |-> b])) :
              Commit(s) /\ last' = Last("fetchSettles", NoId, FALSE, s)
    /\ UNCHANGED phase

NextStream ==
    \/ InitializeChatApp
    \/ SetInput
    \/ SendMessage
    \/ FetchSettlesStream
    \/ ReadSettles

SpecStream == Init /\ [][NextStream]_vars

\* the lines of all chunks of a body, in the order they arrive
RECURSIVE AllLines(_)
AllLines(body) ==
    IF body = <<>> THEN <<>> ELSE SplitLines(Head(body)) \o AllLines(Tail(body))

\* what a line contributes as the specification has it: its response field
\* when it parses and has one, nothing when it parses and has none, its raw
\* text when it does not parse (a line of blanks does not parse)
ClaimedPiece(line) == IF LineParses(line) THEN LineResponse(line) ELSE line

RECURSIVE ClaimedStream(_)
ClaimedStream(lines) ==
    IF lines = <<>> THEN <<>>
    ELSE ClaimedPiece(Head(lines)) \o ClaimedStream(Tail(lines))

\* what a line contributes as the code has it: nothing when it is empty once
\* trimmed; its response field when it parses to an object that has one, nothing
\* when it parses to an object that has none; its raw text, blanks included,
\* when it does not parse or parses to null
ActualPiece(line) ==
    IF Trim(line) = <<>> THEN <<>>
    ELSE IF LineParses(line) /\ Trim(line)[1] # NULL_LINE THEN LineResponse(line)
    ELSE line

RECURSIVE ActualStream(_)
ActualStream(lines) ==
    IF lines = <<>> THEN <<>>
    ELSE ActualPiece(Head(lines)) \o ActualStream(Tail(lines))

\* a streamed exchange ends without an error
StreamEnds ==
    /\ last'.op = "readSettles"
    /\ ExchangeEnds
    /\ ~last'.caught
    /\ Len(calls) = 1

\* C13 as the specification states it: the assistant message appended after a
\* streamed body is the accumulation, over all lines of all chunks in order, of
\* the response field of the lines that parse and of the raw text of those that
\* do not
C13_StreamAccumulates ==
    [][StreamEnds
        => heap'[currentChatHistory'] =
              Append(heap[currentChatHistory],
                     [role |-> "assistant",
                      content |-> ClaimedStream(AllLines(calls[1].stream))])]_vars

\* C13 as the code has it: the same accumulation, with the lines that are empty
\* once trimmed skipped and a line that parses to null taken as raw text; the
\* chunks {"response":"He"}\n and {"response":"llo"}\n give "Hello"
C13_StreamAccumulatesTrimmed ==
    [][StreamEnds
        => /\ heap'[currentChatHistory'] =
                Append(heap[currentChatHistory],
                       [role |-> "assistant",
                        content |-> ActualStream(AllLines(calls[1].stream))])
           /\ calls[1].stream = << <<HE_LINE, "\n">>, <<LLO_LINE, "\n">> >>
                => heap'[currentChatHistory'][Len(heap'[currentChatHistory'])].content
                      = <<"H", "e", "l", "l", "o">>]_vars

\* the two chunks of "Hello" were delivered and the exchange ended
C13_HelloStreamed ==
    /\ last.op = "readSettles"
    /\ ~last.caught
    /\ calls = <<>>
    /\ Truthy(currentChatId)
    /\ heap[currentChatHistory] # <<>>
    /\ heap[currentChatHistory][Len(heap[currentChatHistory])] =
          [role |-> "assistant", content |-> <<"H", "e", "l", "l", "o">>]

---------------------------------------------------------------------------
(* Properties of Spec, continued *)

\* the step is a call of sendMessage that line 76 lets through
SendAccepted == SendStep /\ Trim(inputValue) # <<>> /\ ~isProcessing

\* C14: a sendMessage that is let through appends the user message (the trimmed
\* input) to the history of the current chat, writes the whole registry with it
\* to the store (which then holds it, unless the store rejected the write) and
\* leaves one request issued, whose input is the contents of the whole history,
\* the new message last, joined by newlines
C14_SavedBeforeRequest ==
    [][SendAccepted
        => /\ ~last'.threw
           /\ FirstMatch(chats, currentChatId) # 0
           /\ chats[FirstMatch(chats, currentChatId)].history = currentChatHistory
           /\ UNCHANGED <<chats, currentChatId, currentChatHistory>>
           /\ heap'[currentChatHistory] =
                 Append(heap[currentChatHistory],
                        [role |-> "user", content |-> Trim(inputValue)])
           /\ Len(last'.writes) = 1
           /\ last'.writes[1] => storage' = View(chats', chatsIsArray', heap')
           /\ ~last'.writes[1] => storage' = storage
           /\ Len(calls') = Len(calls) + 1
           /\ LET call == calls'[Len(calls')]
                  h == heap'[currentChatHistory]
              IN /\ call.pc = "fetch"
                 /\ call.input = JoinContents(h)
                 /\ Len(call.input) >= Len(Trim(inputValue))
                 /\ SubSeq(call.input, Len(call.input) - Len(Trim(inputValue)) + 1,
                           Len(call.input)) = Trim(inputValue)]_vars

\* a request is pending and the store holds the user message it carries last
C14_RequestPendingSaved ==
    /\ last.op = "sendMessage"
    /\ ~last.flag
    /\ last.writes = <<TRUE>>
    /\ Len(calls) = 1
    /\ calls[1].pc = "fetch"
    /\ Persisted
    /\ heap[currentChatHistory][Len(heap[currentChatHistory])].role = "user"

\* the step is one of the handlers that change the registry or the current chat
MutationStep ==
    \/ last'.op \in {"createNewChat", "switchChat", "initializeChatApp"}
    \/ last'.op = "deleteChatHandler" /\ last'.flag

\* C15: after createNewChat, switchChat, deleteChatHandler and initializeChatApp,
\* when the registry is not empty, the sidebar shows one item per chat, exactly
\* one of them marked active, and that one is the item of the current chat
C15_OneActiveItem ==
    [][(MutationStep /\ chats' # <<>>)
        => /\ Len(chatList') = Len(chats')
           /\ \A k \in 1..Len(chatList') :
                 /\ chatList'[k].chatId = chats'[k].id
                 /\ chatList'[k].active <=> chats'[k].id = currentChatId'
           /\ Cardinality({k \in 1..Len(chatList') : chatList'[k].active}) = 1]_vars

\* role and text of the elements of a message list
Shown(d) == [k \in 1..Len(d) |-> [cls |-> d[k].cls, text |-> d[k].text]]

\* C16: whenever the page is set up and no exchange is in flight, the message
\* list shows, element for element and in order, the history of the current
\* chat
C16_ListShowsHistory ==
    (phase = "ready" /\ calls = <<>> /\ ~isProcessing)
        => Shown(dom) = Shown(RenderAll(heap[currentChatHistory]))

\* h is a prefix of g
IsPrefix(h, g) == Len(h) <= Len(g) /\ SubSeq(g, 1, Len(h)) = h

\* C17: in every step, a chat that is in the registry before and after it has
\* its history before the step as a prefix of its history after it; and every
\* chat of the registry has a history that starts with the welcome message
C17_AppendOnly ==
    [][/\ \A k \in 1..Len(chats), j \in 1..Len(chats') :
             chats[k].id = chats'[j].id
                => IsPrefix(heap[chats[k].history], heap'[chats'[j].history])
       /\ \A j \in 1..Len(chats') :
             /\ heap'[chats'[j].history] # <<>>
             /\ heap'[chats'[j].history][1] = WELCOME_MESSAGE]_vars

\* a chat other than the current one holds a user message and the reply to it
C17_GrownChat ==
    /\ calls = <<>>
    /\ \E k \in 1..Len(chats) :
          /\ Len(heap[chats[k].history]) >= 3
          /\ heap[chats[k].history][1] = WELCOME_MESSAGE
          /\ heap[chats[k].history][2].role = "user"
          /\ heap[chats[k].history][3].role = "assistant"

\* every setItem of the step was accepted by the store
WritesAccepted == \A k \in 1..Len(last'.writes) : last'.writes[k]

\* C20: when the store accepts every write, the stored registry equals the
\* registry in memory (same chats, order and histories) after every handler:
\* initializeChatApp establishes the agreement and every later handler whose
\* writes are accepted keeps it
C20_StoreAgreesWithMemory ==
    [][(/\ phase' = "ready"
        /\ WritesAccepted
        /\ phase = "ready" => Persisted)
          => /\ Persisted'
             /\ storage'.kind = "array"
             /\ Len(storage'.items) = Len(chats')
             /\ \A k \in 1..Len(chats') :
                   /\ storage'.items[k].id = chats'[k].id
                   /\ storage'.items[k].history = heap'[chats'[k].history]]_vars

\* a reply arrived and was pushed to a history, its write was accepted, and the
\* store holds what memory holds
C20_ReplyPersisted ==
    /\ last.op \in {"jsonSettles", "readSettles"}
    /\ last.writes = <<TRUE>>
    /\ calls = <<>>
    /\ Persisted
    /\ \E k \in 1..Len(chats) :
          /\ Len(heap[chats[k].history]) = 3
          /\ storage.items[k].history = heap[chats[k].history]

\* C19 as stated: when initializeChatApp loads a registry that holds the chat
\* that was current when the page was left, it makes that chat current
C19_MostRecentlyUsed ==
    (/\ last.op = "initializeChatApp"
     /\ Truthy(last.arg)
     /\ \E k \in 1..Len(chats) : chats[k].id = last.arg)
        => currentChatId = last.arg

\* C19: when initializeChatApp loads a non-empty registry, the chat it makes
\* current is the last one of the stored array, whichever chat was current
\* before; its stored history becomes the current history and its item is the
\* active one of the sidebar
C19_LastOfStoredArray ==
    [][(/\ last'.op = "initializeChatApp"
        /\ storage.kind = "array"
        /\ storage.items # <<>>)
          => LET n == Len(storage.items)
             IN /\ Len(chats') = n
                /\ currentChatId' = storage.items[n].id
                /\ currentChatId' = chats'[n].id
                /\ heap'[currentChatHistory'] = storage.items[n].history
                /\ \A k \in 1..Len(chatList') : chatList'[k].active <=> k = n]_vars

\* the page was loaded again after a chat other than the last one of the registry
\* had been current, and the last one is current now
C19_ReloadedAfterSwitch ==
    /\ last.op = "initializeChatApp"
    /\ Truthy(last.arg)
    /\ last.arg # currentChatId
    /\ Len(chats) >= 2
    /\ chats[1].id = last.arg
    /\ currentChatId = chats[Len(chats)].id

---------------------------------------------------------------------------
(* One exchange over a store that is full: setItem may throw at every write *)

\* the record copied back into the variables; rejected writes are not counted
\* as events, so that every write of an exchange can be rejected
CommitQuota(s) == CommitAt(s, Events(s) - Rejected(s.writes))

SendMessageQuota ==
    /\ phase = "ready"
    /\ \E s \in Run(LAMBDA c : sendMessage(c)) :
         /\ CommitQuota(s)
         /\ last' = Last("sendMessage", NoId, SendRejected(Cur(<<>>)), s)
    /\ UNCHANGED phase

ReadSettlesQuota ==
    /\ \E i \in 1..Len(calls), ok \in BOOLEAN :
         /\ calls[i].pc = "read"
         /\ \E s \in Run(LAMBDA c : readSettles(c, i, ok)) :
              CommitQuota(s) /\ last' = Last("readSettles", NoId, ok, s)
    /\ UNCHANGED phase

JsonSettlesQuota ==
    /\ \E i \in 1..Len(calls), r \in JsonOutcomes :
         /\ calls[i].pc = "json"
         /\ \E s \in Run(LAMBDA c : jsonSettles(c, i, r)) :
              CommitQuota(s) /\ last' = Last("jsonSettles", NoId, TRUE, s)
    /\ UNCHANGED phase

CreateNewChatQuota ==
    /\ phase = "ready"
    /\ \E s \in Run(LAMBDA c : createNewChat(c)) :
         CommitQuota(s) /\ last' = Last("createNewChat", NoId, FALSE, s)
    /\ UNCHANGED phase

DeleteChatHandlerQuota ==
    /\ phase = "ready"
    /\ \E chatId \in 1..(nextId - 1), confirmed \in BOOLEAN :
         \E s \in Run(LAMBDA c : deleteChatHandler(c, chatId, confirmed)) :
            /\ CommitQuota(s)
            /\ last' = Last("deleteChatHandler", chatId, confirmed, s)
    /\ UNCHANGED phase

NextQuota ==
    \/ InitializeChatApp
    \/ SetInput
    \/ CreateNewChatQuota
    \/ DeleteChatHandlerQuota
    \/ SendMessageQuota
    \/ FetchSettles
    \/ ReadSettlesQuota
    \/ JsonSettlesQuota

SpecQuota == Init /\ [][NextQuota]_vars

\* the store rejected a write of the step
WriteRejected == \E k \in 1..Len(last'.writes) : ~last'.writes[k]

\* C18: a step in which the store rejects a write throws nothing and takes no
\* failure path, and the store keeps its value when every write of the step is
\* rejected; a sendMessage in which the write is rejected leaves memory, the
\* message list and the suspended call as the same call with the write accepted
\* does: the user message is in the history and the call is suspended at fetch;
\* a response whose write is rejected appends the assistant message to the
\* current history and returns to idle with the controls enabled
C18_RejectedWriteIsSilent ==
    [][WriteRejected
        => /\ ~last'.threw
           /\ ~last'.caught
           /\ Rejected(last'.writes) = Len(last'.writes) => storage' = storage
           /\ last'.op = "createNewChat"
                => /\ Len(chats') = Len(chats) + 1
                   /\ currentChatId' = chats'[Len(chats')].id
                   /\ heap'[currentChatHistory'] = <<WELCOME_MESSAGE>>
           /\ last'.op = "deleteChatHandler"
                => /\ \A k \in 1..Len(chats') : chats'[k].id # last'.arg
                   /\ \E k \in 1..Len(chats) : chats[k].id = last'.arg
           /\ SendStep
                => LET a == sendMessage(Cur(<<TRUE, TRUE>>))
                   IN /\ chats' = a.chats
                      /\ currentChatId' = a.currentChatId
                      /\ currentChatHistory' = a.currentChatHistory
                      /\ heap' = Collect(a)
                      /\ dom' = a.dom
                      /\ calls' = a.calls
                      /\ isProcessing'
                      /\ Len(calls') = Len(calls) + 1
                      /\ calls'[Len(calls')].pc = "fetch"
                      /\ heap'[currentChatHistory'] =
                            Append(heap[currentChatHistory],
                                   [role |-> "user", content |-> Trim(inputValue)])
           /\ last'.op \in {"readSettles", "jsonSettles"}
                => /\ ExchangeEnds
                   /\ ~isProcessing' /\ ~inputDisabled' /\ ~sendDisabled'
                   /\ FirstThinking(dom') = 0
                   /\ currentChatHistory' = currentChatHistory
                   /\ Len(heap'[currentChatHistory']) = Len(heap[currentChatHistory]) + 1
                   /\ IsPrefix(heap[currentChatHistory], heap'[currentChatHistory'])
                   /\ heap'[currentChatHistory'][Len(heap'[currentChatHistory'])].role
                         = "assistant"]_vars

\* an exchange ended with the reply in the history although the store rejected
\* the write of the user message and the write of the reply
C18_RepliedOverFullStore ==
    /\ last.op \in {"readSettles", "jsonSettles"}
    /\ last.writes = <<FALSE>>
    /\ ~last.caught
    /\ calls = <<>>
    /\ ~isProcessing
    /\ \E k \in 1..Len(chats) :
          /\ chats[k].id = currentChatId
          /\ k <= Len(storage.items)
          /\ storage.items[k].id = currentChatId
          /\ Len(heap[currentChatHistory]) = Len(storage.items[k].history) + 2
          /\ heap[currentChatHistory][Len(heap[currentChatHistory])].role = "assistant"

=============================================================================
